---- MODULE Spec2Model ----
(***************************************************************************)
(* Model of the candidate-to-job matching engine,                          *)
(* mcp_server/recruitment_backend/candidate_matcher.py (CandidateMatcher). *)
(*                                                                         *)
(* Conventions                                                             *)
(*  - Python str values are TLA+ strings; characters are read with SubSeq. *)
(*  - A Python float score is kept exactly as a rational [num, den]; the   *)
(*    values stored by round(x * 100, 1) are kept in tenths (76.0 -> 760). *)
(*  - A candidate dict is a record holding the keys that are present with  *)
(*    a value, plus the field "null": the keys present with the value None.*)
(*  - A call that raises returns [raised |-> TRUE, ...].                   *)
(***************************************************************************)
EXTENDS Integers, Sequences, FiniteSets, TLC

VARIABLES
  candidates,       \* the pool handed to the matcher
  job_description,  \* the free-text query
  job_title,        \* the optional title ("" when not given)
  limit,            \* the requested page size
  hashseed,         \* the str hash seed of the running process
  op,               \* the method called last
  arg,              \* its arguments beyond the request
  ret,              \* what it returned, or [raised |-> TRUE]
  threads,          \* per thread running match_candidates: its arguments, its
                    \* position in the method, its locals and its result
  heap              \* the requirements dicts built by the running calls

vars == <<candidates, job_description, job_title, limit, hashseed, op, arg, ret,
          threads, heap>>

(***************************************************************************)
(* Generic helpers.                                                        *)
(***************************************************************************)
Min(a, b) == IF a <= b THEN a ELSE b

Max(a, b) == IF a >= b THEN a ELSE b

Range(s) == {s[i] : i \in 1..Len(s)}

\* The value None of a str-typed slot.
None == "None"

(***************************************************************************)
(* Python str operations.                                                  *)
(***************************************************************************)
UpperChars == "ABCDEFGHIJKLMNOPQRSTUVWXYZ"

LowerChars == "abcdefghijklmnopqrstuvwxyz"

Digits == "0123456789"

\* 1-based position of the one-character string ch in alphabet, or 0
IndexIn(ch, alphabet) ==
  IF \E i \in 1..Len(alphabet) : SubSeq(alphabet, i, i) = ch
    THEN CHOOSE i \in 1..Len(alphabet) : SubSeq(alphabet, i, i) = ch
    ELSE 0

\* the lower-case letter of every upper-case letter
LowerTable ==
  [ch \in {SubSeq(UpperChars, i, i) : i \in 1..Len(UpperChars)} |->
     SubSeq(LowerChars, IndexIn(ch, UpperChars), IndexIn(ch, UpperChars))]

LowerChar(ch) == IF ch \in DOMAIN LowerTable THEN LowerTable[ch] ELSE ch

RECURSIVE str_lower(_)
\* str.lower()
str_lower(s) ==
  IF Len(s) = 0 THEN s
  ELSE IF Len(s) = 1 THEN LowerChar(s)
  ELSE LET h == Len(s) \div 2
       IN  str_lower(SubSeq(s, 1, h)) \o str_lower(SubSeq(s, h + 1, Len(s)))

RECURSIVE str_title(_, _)
\* str.title() on the rest of the string; prevCased: the previous character
\* was a cased letter
str_title(s, prevCased) ==
  IF Len(s) = 0 THEN s
  ELSE LET ch == SubSeq(s, 1, 1)
           u  == IndexIn(ch, UpperChars)
           l  == IndexIn(ch, LowerChars)
           out == IF prevCased
                    THEN LowerChar(ch)
                    ELSE IF l = 0 THEN ch ELSE SubSeq(UpperChars, l, l)
       IN  out \o str_title(SubSeq(s, 2, Len(s)), u # 0 \/ l # 0)

\* the Python expression  sub in text
str_in(sub, text) ==
  \E i \in 1..(Len(text) - Len(sub) + 1) : SubSeq(text, i, i + Len(sub) - 1) = sub

\* text[:n] for n >= 0
str_prefix(text, n) == SubSeq(text, 1, Min(n, Len(text)))

\* Filter a sequence, keeping order (a list comprehension with an if)
RECURSIVE SelectSeqIn(_, _)
SelectSeqIn(s, text) ==
  IF s = <<>> THEN <<>>
  ELSE (IF str_in(Head(s), text) THEN <<Head(s)>> ELSE <<>>) \o SelectSeqIn(Tail(s), text)

(***************************************************************************)
(* CandidateMatcher.__init__: the vocabulary tables.                       *)
(***************************************************************************)
skill_synonyms ==
  [k \in {"react", "vue", "angular", "frontend", "node", "backend", "api",
          "kubernetes", "ci/cd", "aws", "javascript", "typescript", "python"} |->
     CASE k = "react"      -> <<"reactjs", "react.js", "react-native">>
       [] k = "vue"        -> <<"vuejs", "vue.js">>
       [] k = "angular"    -> <<"angularjs">>
       [] k = "frontend"   -> <<"front-end", "ui", "user-interface">>
       [] k = "node"       -> <<"nodejs", "node.js">>
       [] k = "backend"    -> <<"back-end", "server-side">>
       [] k = "api"        -> <<"rest", "graphql", "restful">>
       [] k = "kubernetes" -> <<"k8s">>
       [] k = "ci/cd"      -> <<"cicd", "continuous-integration", "continuous-deployment">>
       [] k = "aws"        -> <<"amazon-web-services">>
       [] k = "javascript" -> <<"js", "es6", "typescript">>
       [] k = "typescript" -> <<"ts">>
       [] k = "python"     -> <<"py">>]

\* dict iteration order of experience_keywords
\* experience_levels iterated from the highest tier down
experience_levels_senior_first == <<"senior", "mid", "junior">>

experience_levels == <<"junior", "mid", "senior">>

experience_keywords ==
  [l \in Range(experience_levels) |->
     CASE l = "junior" -> <<"junior", "entry", "1-3 years", "graduate">>
       [] l = "mid"    -> <<"mid", "intermediate", "3-5 years", "mid-level">>
       [] l = "senior" -> <<"senior", "sr", "5+ years", "lead", "staff", "principal">>]

tech_keywords ==
  <<"react", "vue", "angular", "javascript", "typescript", "python", "java",
    "go", "rust", "node", "django", "flask", "fastapi", "express",
    "kubernetes", "docker", "aws", "gcp", "azure", "terraform",
    "postgresql", "mongodb", "redis", "graphql", "rest", "api",
    "machine learning", "tensorflow", "pytorch", "data science",
    "mobile", "ios", "android", "react native">>

open_source_keywords == <<"open source", "open-source", "oss", "github", "contributions">>

location_keywords ==
  <<"remote", "san francisco", "new york", "seattle", "austin", "boston", "london", "berlin">>

(***************************************************************************)
(* extract_requirements                                                    *)
(***************************************************************************)
\* first element of the sequence s that occurs in text, else dflt
RECURSIVE FirstIn(_, _, _)
FirstIn(s, text, dflt) ==
  IF s = <<>> THEN dflt
  ELSE IF str_in(Head(s), text) THEN Head(s) ELSE FirstIn(Tail(s), text, dflt)

\* for level, keywords in experience_keywords.items(): if any(...): level; break
RECURSIVE detect_level(_, _)
detect_level(levels, text) ==
  IF levels = <<>> THEN "mid"
  ELSE IF \E i \in 1..Len(experience_keywords[Head(levels)]) :
            str_in(experience_keywords[Head(levels)][i], text)
         THEN Head(levels)
         ELSE detect_level(Tail(levels), text)

IsDigit(text, i) == i >= 1 /\ i <= Len(text) /\ IndexIn(SubSeq(text, i, i), Digits) # 0

\* end of the run of digits that starts at i
RECURSIVE DigitRunEnd(_, _)
DigitRunEnd(text, i) == IF IsDigit(text, i + 1) THEN DigitRunEnd(text, i + 1) ELSE i

\* first position at or after i that holds no whitespace
RECURSIVE SkipSpaces(_, _)
SkipSpaces(text, i) ==
  IF i <= Len(text) /\ SubSeq(text, i, i) = " " THEN SkipSpaces(text, i + 1) ELSE i

\* does  (\d+)\+?\s*years?  match with the group starting at i
YearsMatchAt(text, i) ==
  /\ IsDigit(text, i)
  /\ LET e == DigitRunEnd(text, i)
         p == IF e + 1 <= Len(text) /\ SubSeq(text, e + 1, e + 1) = "+" THEN e + 2 ELSE e + 1
         q == SkipSpaces(text, p)
     IN  \* \+? and \s* may match nothing; the trailing s? always succeeds
         q + 3 <= Len(text) /\ SubSeq(text, q, q + 3) = "year"

RECURSIVE ParseInt(_)
\* int() of a string of digits
ParseInt(s) ==
  IF Len(s) = 0 THEN 0
  ELSE 10 * ParseInt(SubSeq(s, 1, Len(s) - 1)) + (IndexIn(SubSeq(s, Len(s), Len(s)), Digits) - 1)

\* re.search(r'(\d+)\+?\s*years?', text): <<int(group(1))>> or <<>> for None
min_years_of(text) ==
  IF \E i \in 1..Len(text) : YearsMatchAt(text, i)
    THEN LET i == CHOOSE i \in 1..Len(text) :
                    YearsMatchAt(text, i) /\ \A j \in 1..(i - 1) : ~YearsMatchAt(text, j)
         IN  <<ParseInt(SubSeq(text, i, DigitRunEnd(text, i)))>>
    ELSE <<>>

extract_requirements(description) ==
  LET text == str_lower(description)
  IN  [skills              |-> SelectSeqIn(tech_keywords, text),
       experience_level    |-> detect_level(experience_levels, text),
       min_years           |-> min_years_of(text),
       prefers_open_source |-> \E i \in 1..Len(open_source_keywords) :
                                  str_in(open_source_keywords[i], text),
       location            |-> FirstIn(location_keywords, text, None),
       raw_text            |-> text]

(***************************************************************************)
(* Exact arithmetic for Python floats: a rational in lowest terms.         *)
(***************************************************************************)
RECURSIVE Gcd(_, _)
Gcd(a, b) == IF b = 0 THEN a ELSE Gcd(b, a % b)

Rat(n, d) == LET g == Gcd(n, d) IN [num |-> n \div g, den |-> d \div g]

RatAdd(a, b) == Rat(a.num * b.den + b.num * a.den, a.den * b.den)

RatMul(a, b) == Rat(a.num * b.num, a.den * b.den)

RatLess(a, b) == a.num * b.den < b.num * a.den

\* min(a, b) of the built-in: the first argument unless the second is smaller
RatMin(a, b) == IF RatLess(b, a) THEN b ELSE a

\* round(x * 100, 1), in tenths: round-half-even of 1000 * x
round_pct(x) ==
  LET n == 1000 * x.num
      q == n \div x.den
      r == n % x.den
  IN  IF 2 * r < x.den THEN q
      ELSE IF 2 * r > x.den THEN q + 1
      ELSE IF q % 2 = 0 THEN q ELSE q + 1

(***************************************************************************)
(* difflib.SequenceMatcher(None, a, b).ratio() for strings shorter than    *)
(* 200 characters (no junk, no popular-element heuristic).                 *)
(***************************************************************************)
\* length of the common run of a[i..ahi] and b[j..bhi] (1-based, inclusive)
RECURSIVE RunLen(_, _, _, _, _, _)
RunLen(a, i, ahi, b, j, bhi) ==
  IF i > ahi \/ j > bhi \/ SubSeq(a, i, i) # SubSeq(b, j, j) THEN 0
  ELSE 1 + RunLen(a, i + 1, ahi, b, j + 1, bhi)

\* find_longest_match: the longest block, the earliest in a, then the earliest in b
find_longest_match(a, alo, ahi, b, blo, bhi) ==
  LET P == (alo..ahi) \X (blo..bhi)
      run == [p \in P |-> RunLen(a, p[1], ahi, b, p[2], bhi)]
      longest == CHOOSE k \in {run[p] : p \in P} : \A q \in P : run[q] <= k
      Best == {p \in P : run[p] = longest}
      first == CHOOSE p \in Best :
                 \A q \in Best : p[1] < q[1] \/ (p[1] = q[1] /\ p[2] <= q[2])
  IN  IF P = {} THEN <<alo, blo, 0>> ELSE <<first[1], first[2], longest>>

\* sum of the sizes of get_matching_blocks()
RECURSIVE matching_size(_, _, _, _, _, _)
matching_size(a, alo, ahi, b, blo, bhi) ==
  LET m == find_longest_match(a, alo, ahi, b, blo, bhi)
  IN  IF m[3] = 0 THEN 0
      ELSE m[3] + matching_size(a, alo, m[1] - 1, b, blo, m[2] - 1)
                + matching_size(a, m[1] + m[3], ahi, b, m[2] + m[3], bhi)

\* ratio() = 2.0 * matches / (len(a) + len(b)), 1.0 when both are empty
ratio(a, b) ==
  IF Len(a) + Len(b) = 0 THEN Rat(1, 1)
  ELSE Rat(2 * matching_size(a, 1, Len(a), b, 1, Len(b)), Len(a) + Len(b))

(***************************************************************************)
(* Candidate dicts.                                                        *)
(***************************************************************************)
\* the key is present and its value is None
IsNone(candidate, key) == key \in candidate.null

\* the key is present with a value other than None
HasValue(candidate, key) == key \in DOMAIN candidate /\ key # "null"

\* candidate.get(key, default), for a key whose value is not None
Get(candidate, key, default) == IF HasValue(candidate, key) THEN candidate[key] ELSE default

\* candidate.get(key) or default: None and absent both give the default
GetOr(candidate, key, default) == Get(candidate, key, default)

\* truth value of candidate.get(key) for a bool-valued key
Truthy(candidate, key) == HasValue(candidate, key) /\ candidate[key] = TRUE

(***************************************************************************)
(* calculate_skill_match                                                   *)
(***************************************************************************)
SkillThreshold == Rat(8, 10)

\* the set built by lines 99-112
candidate_skill_set(candidate, required_skills) ==
  LET languages == Get(candidate, "languages", <<>>)
      skills    == Get(candidate, "skills", <<>>)
      bio        == GetOr(candidate, "bio", "")
      tech_stack == GetOr(candidate, "tech_stack_summary", "")
      bio_text   == str_lower(bio \o " " \o tech_stack)
  IN  {str_lower(languages[i]) : i \in 1..Len(languages)}
        \cup {str_lower(skills[i]) : i \in 1..Len(skills)}
        \cup {str_lower(Get(candidate, "primary_language", ""))}
        \cup {s \in Range(required_skills) : str_in(s, bio_text)}

\* expand_synonyms without the expansion
expand_synonyms_none(candidate_skills) == candidate_skills

\* lines 115-118
expand_synonyms(candidate_skills) ==
  candidate_skills \cup
    UNION {Range(skill_synonyms[s]) : s \in candidate_skills \cap DOMAIN skill_synonyms}

\* the if / elif / else of lines 123-136 for one required skill
skill_matches(required_skill, expanded) ==
  IF required_skill \in expanded THEN TRUE
  ELSE IF required_skill \in DOMAIN skill_synonyms
    THEN \E i \in 1..Len(skill_synonyms[required_skill]) :
            skill_synonyms[required_skill][i] \in expanded
    ELSE \E cand_skill \in expanded : RatLess(SkillThreshold, ratio(required_skill, cand_skill))

RECURSIVE matched_list_independent_tests(_, _)
\* matched_list with the direct and the synonym test as two independent ifs
matched_list_independent_tests(required_skills, expanded) ==
  IF required_skills = <<>> THEN <<>>
  ELSE LET skill == Head(required_skills)
       IN  (IF skill \in expanded THEN <<skill>> ELSE <<>>)
           \o (IF /\ skill \in DOMAIN skill_synonyms
                  /\ \E i \in 1..Len(skill_synonyms[skill]) : skill_synonyms[skill][i] \in expanded
                 THEN <<skill>> ELSE <<>>)
           \o matched_list_independent_tests(Tail(required_skills), expanded)

RECURSIVE matched_list(_, _)
\* lines 121-136: the required skills that match, in the order required
matched_list(required_skills, expanded) ==
  IF required_skills = <<>> THEN <<>>
  ELSE (IF skill_matches(Head(required_skills), expanded)
          THEN <<Head(required_skills)>> ELSE <<>>)
       \o matched_list(Tail(required_skills), expanded)

\* calculate_skill_match with the neutral score also for a candidate who
\* lists no language and no skill
calculate_skill_match_neutral_unlisted(candidate, required_skills) ==
  IF required_skills = <<>>
       \/ (~HasValue(candidate, "languages") /\ ~IsNone(candidate, "languages")
             /\ ~HasValue(candidate, "skills") /\ ~IsNone(candidate, "skills"))
    THEN [raised |-> FALSE, score |-> Rat(1, 2), matched_skills |-> <<>>]
  ELSE IF IsNone(candidate, "languages") \/ IsNone(candidate, "skills")
            \/ IsNone(candidate, "primary_language")
    THEN [raised |-> TRUE]
  ELSE LET expanded == expand_synonyms(candidate_skill_set(candidate, required_skills))
           matched  == matched_list(required_skills, expanded)
       IN  [raised |-> FALSE,
            score |-> Rat(Len(matched), Len(required_skills)),
            matched_skills |-> matched]

\* calculate_skill_match with the candidate's skills gathered before the test
\* for an empty requirement
calculate_skill_match_gather_first(candidate, required_skills) ==
  IF IsNone(candidate, "languages") \/ IsNone(candidate, "skills")
       \/ IsNone(candidate, "primary_language")
    THEN [raised |-> TRUE]
  ELSE IF required_skills = <<>>
    THEN [raised |-> FALSE, score |-> Rat(1, 2), matched_skills |-> <<>>]
  ELSE LET expanded == expand_synonyms(candidate_skill_set(candidate, required_skills))
           matched  == matched_list(required_skills, expanded)
       IN  [raised |-> FALSE,
            score |-> Rat(Len(matched), Len(required_skills)),
            matched_skills |-> matched]

calculate_skill_match(candidate, required_skills) ==
  IF required_skills = <<>>
    THEN [raised |-> FALSE, score |-> Rat(1, 2), matched_skills |-> <<>>]
  ELSE IF IsNone(candidate, "languages") \/ IsNone(candidate, "skills")
            \/ IsNone(candidate, "primary_language")
    THEN [raised |-> TRUE]
  ELSE LET expanded == expand_synonyms(candidate_skill_set(candidate, required_skills))
           matched  == matched_list(required_skills, expanded)
       IN  [raised |-> FALSE,
            score |-> Rat(Len(matched), Len(required_skills)),
            matched_skills |-> matched]

(***************************************************************************)
(* calculate_experience_match                                              *)
(***************************************************************************)
\* level_order written from the highest tier down
level_order_reversed == <<"senior", "mid", "junior">>

level_order == <<"junior", "mid", "senior">>

\* index_of with position 1 for an element the list does not hold
index_of_or_mid(s, x) ==
  IF \E i \in 1..Len(s) : s[i] = x THEN (CHOOSE i \in 1..Len(s) : s[i] = x) - 1 ELSE 1

\* list.index: the 0-based position, or -1 where Python raises ValueError
index_of(s, x) ==
  IF \E i \in 1..Len(s) : s[i] = x THEN (CHOOSE i \in 1..Len(s) : s[i] = x) - 1 ELSE 0 - 1

calculate_experience_match(candidate, requirements) ==
  IF IsNone(candidate, "estimated_experience_level") THEN [raised |-> TRUE]
  ELSE
    LET candidate_level == str_lower(Get(candidate, "estimated_experience_level", "Mid"))
        required_level  == str_lower(IF "experience_level" \in DOMAIN requirements
                                       THEN requirements.experience_level ELSE "mid")
        cand_idx == index_of(level_order, candidate_level)
        req_idx  == index_of(level_order, required_level)
        cand == str_title(candidate_level, FALSE)
        req  == str_title(required_level, FALSE)
    IN  IF cand_idx < 0 \/ req_idx < 0
          THEN [raised |-> FALSE, score |-> Rat(5, 10),
                reason |-> "Unable to determine experience match"]
        ELSE IF cand_idx = req_idx
          THEN [raised |-> FALSE, score |-> Rat(10, 10),
                reason |-> "Perfect match: " \o cand \o " level"]
        ELSE IF cand_idx = req_idx + 1
          THEN [raised |-> FALSE, score |-> Rat(9, 10),
                reason |-> "Overqualified: " \o cand \o " for " \o req \o " role"]
        ELSE IF cand_idx = req_idx - 1
          THEN [raised |-> FALSE, score |-> Rat(7, 10),
                reason |-> "Slightly underqualified: " \o cand \o " for " \o req \o " role"]
        ELSE [raised |-> FALSE, score |-> Rat(4, 10),
              reason |-> "Experience mismatch: " \o cand \o " vs " \o req \o " required"]

(***************************************************************************)
(* calculate_github_activity_score                                         *)
(***************************************************************************)
\* band with the cutoffs inclusive (>= for >)
band_inclusive(n, hi, hiPts, mid, midPts, midReason, lo, loPts, reason) ==
  IF n >= hi THEN <<hiPts, <<reason>>>>
  ELSE IF n >= mid THEN <<midPts, IF midReason THEN <<reason>> ELSE <<>>>>
  ELSE IF n >= lo THEN <<loPts, <<>>>>
  ELSE <<0, <<>>>>

\* band with the lowest cutoff tested first
band_misordered(n, hi, hiPts, mid, midPts, midReason, lo, loPts, reason) ==
  IF n > lo THEN <<loPts, <<>>>>
  ELSE IF n > mid THEN <<midPts, IF midReason THEN <<reason>> ELSE <<>>>>
  ELSE IF n > hi THEN <<hiPts, <<reason>>>>
  ELSE <<0, <<>>>>

\* one if / elif / elif band: <<points in hundredths, reason list>>
band(n, hi, hiPts, mid, midPts, midReason, lo, loPts, reason) ==
  IF n > hi THEN <<hiPts, <<reason>>>>
  ELSE IF n > mid THEN <<midPts, IF midReason THEN <<reason>> ELSE <<>>>>
  ELSE IF n > lo THEN <<loPts, <<>>>>
  ELSE <<0, <<>>>>

calculate_github_activity_score(candidate) ==
  IF IsNone(candidate, "public_repos") \/ IsNone(candidate, "total_stars")
       \/ IsNone(candidate, "followers")
    THEN [raised |-> TRUE]
  ELSE
    LET repos     == Get(candidate, "public_repos", 0)
        stars     == Get(candidate, "total_stars", 0)
        followers == Get(candidate, "followers", 0)
        r == band(repos, 50, 20, 20, 15, TRUE, 10, 10, ToString(repos) \o " public repositories")
        s == band(stars, 500, 30, 100, 20, TRUE, 50, 10, ToString(stars) \o " GitHub stars")
        f == band(followers, 200, 20, 100, 15, FALSE, 50, 10, ToString(followers) \o " followers")
        p == IF Truthy(candidate, "has_popular_repos")
               THEN <<15, <<"Has popular open source projects">>>> ELSE <<0, <<>>>>
        o == IF Truthy(candidate, "open_source_contributor")
               THEN <<15, <<"Active open source contributor">>>> ELSE <<0, <<>>>>
    IN  [raised |-> FALSE,
         score |-> RatMin(Rat(r[1] + s[1] + f[1] + p[1] + o[1], 100), Rat(1, 1)),
         reasons |-> r[2] \o s[2] \o f[2] \o p[2] \o o[2]]

(***************************************************************************)
(* The requests the matcher is run on.                                     *)
(***************************************************************************)
\* sample_candidate of test_matcher
JohnDoe ==
  [name |-> "John Doe", github_username |-> "johndoe",
   primary_language |-> "JavaScript",
   languages |-> <<"JavaScript", "TypeScript", "Python">>,
   skills |-> <<"react", "nodejs", "docker">>,
   public_repos |-> 45, total_stars |-> 320, followers |-> 180,
   estimated_experience_level |-> "Senior",
   open_source_contributor |-> TRUE, has_popular_repos |-> TRUE,
   bio |-> "Full stack developer passionate about React and Node.js",
   tech_stack_summary |-> "JavaScript developer with expertise in react, nodejs, docker",
   location |-> "Remote (Berlin)",
   null |-> {}]

\* the candidate of the end-to-end scenario
ScenarioCandidate ==
  [skills |-> <<"react", "nodejs", "docker">>, estimated_experience_level |-> "Senior",
   public_repos |-> 45, total_stars |-> 320, followers |-> 180,
   open_source_contributor |-> TRUE, has_popular_repos |-> TRUE, null |-> {}]

Repos50 == [id |-> 50, public_repos |-> 50, total_stars |-> 0, followers |-> 0,
            has_popular_repos |-> FALSE, open_source_contributor |-> FALSE, null |-> {}]

Repos51 == [Repos50 EXCEPT !.id = 51, !.public_repos = 51]

IdOnly == [id |-> 7, null |-> {}]

JuniorPy ==
  [id |-> 8, primary_language |-> "Python", languages |-> <<"Python", "Go">>,
   estimated_experience_level |-> "junior", public_repos |-> 51,
   location |-> "Austin, TX", null |-> {}]

Staff ==
  [id |-> 9, estimated_experience_level |-> "Staff", skills |-> <<"postgres", "k8s">>,
   public_repos |-> 10, followers |-> 201, null |-> {}]

\* scores like IdOnly for every job: 10 repositories earn nothing
IdTwin == [id |-> 70, public_repos |-> 10, null |-> {}]

Roster == <<JohnDoe, Repos50, IdOnly, IdTwin, Staff, JuniorPy, Repos51, ScenarioCandidate>>

ProfileFields ==
  {"languages", "skills", "primary_language", "bio", "tech_stack_summary",
   "estimated_experience_level", "public_repos", "total_stars", "followers",
   "has_popular_repos", "open_source_contributor", "location"}

\* the record without the key
Without(candidate, key) == [k \in DOMAIN candidate \ {key} |-> candidate[k]]

\* the record with the key present and None
WithNone(candidate, key) == [Without(candidate, key) EXCEPT !.null = @ \cup {key}]

\* John Doe with one profile field absent, or present with None
FieldVariants ==
  {Without(JohnDoe, f) : f \in ProfileFields} \cup {WithNone(JohnDoe, f) : f \in ProfileFields}

\* John Doe with the level written in other cases, unknown, or empty
LevelVariants ==
  {[JohnDoe EXCEPT !.estimated_experience_level = level] :
     level \in {"junior", "Junior", "mid", "MID", "SENIOR", "Lead", ""}}

\* profiles on and just above each cutoff of the activity bands, one count at
\* a time, then all counts and both flags at their highest
BandProfiles ==
  {[id |-> 100, public_repos |-> n, total_stars |-> 0, followers |-> 0,
    has_popular_repos |-> FALSE, open_source_contributor |-> FALSE, null |-> {}] :
      n \in {10, 11, 20, 21, 50, 51}}
    \cup {[id |-> 101, public_repos |-> 0, total_stars |-> n, followers |-> 0,
           has_popular_repos |-> FALSE, open_source_contributor |-> FALSE, null |-> {}] :
             n \in {50, 51, 100, 101, 500, 501}}
    \cup {[id |-> 102, public_repos |-> 0, total_stars |-> 0, followers |-> n,
           has_popular_repos |-> popular, open_source_contributor |-> FALSE, null |-> {}] :
             n \in {50, 51, 100, 101, 200, 201}, popular \in BOOLEAN}
    \cup {[id |-> 103, public_repos |-> 51, total_stars |-> 501, followers |-> 201,
           has_popular_repos |-> TRUE, open_source_contributor |-> contributor, null |-> {}] :
             contributor \in BOOLEAN}

\* skills misspelt by one letter: of a keyword with synonym entries and of one without
Typo == [id |-> 11, skills |-> <<"typescripts", "djangoo">>, null |-> {}]

\* John Doe with the skills to match more than five required ones
Polyglot == [JohnDoe EXCEPT !.skills = <<"react", "django", "docker", "aws", "k8s">>]

\* John Doe in a city a job asks for
LocationVariants == {[JohnDoe EXCEPT !.location = "Austin, Texas"]}

NoNullFields(cands) == \A i \in 1..Len(cands) : cands[i].null = {}

MaxPool == 6

DefaultLimit == 8

\* prefixes of the rotations of the roster, and one-candidate pools of the variants
Pools ==
  {[i \in 1..n |-> Roster[((r + i - 1) % Len(Roster)) + 1]] :
      n \in 0..Min(MaxPool, Len(Roster) - 1), r \in 0..(Len(Roster) - 1)}
    \cup {<<v>> : v \in FieldVariants}

\* a negative limit, zero, small pages that cut the pool, and the default
Limits == {0 - 1, 0, 1, 2, DefaultLimit}

Profiles ==
  Range(Roster) \cup FieldVariants \cup LevelVariants \cup BandProfiles
    \cup {Typo, Polyglot} \cup LocationVariants

ScenarioDescription ==
  "Looking for a Senior Frontend Engineer with strong React and TypeScript experience. "
    \o "5+ years of experience required. Open source contributions are a plus."

Jobs ==
  {<<ScenarioDescription, "">>,
   <<ScenarioDescription, "Senior React Engineer">>,
   <<"anything", "">>,
   <<"Junior Python developer in Austin, 1-3 years. GitHub profile welcome",
     "Backend Engineer (Django, AWS)">>,
   <<"Full stack role: React, TypeScript, Python, Django, Docker, AWS and Kubernetes. Remote.",
     "Senior Python Engineer, Berlin (open source)">>}

\* texts with keywords of two tiers, for extract_requirements called on its own
LevelTexts ==
  {"Junior or senior engineers welcome", "Intermediate developer, reports to the staff lead"}

\* extract_requirements is a pure function of its text: its value on the
\* texts of the requests, computed once
JobTexts == {job[1] : job \in Jobs} \cup {job[2] : job \in Jobs} \cup LevelTexts

ExtractedRequirements == [text \in JobTexts |-> extract_requirements(text)]

(***************************************************************************)
(* match_candidates                                                        *)
(***************************************************************************)
\* the prefix of every reason line (U+2713 and a space in the source)
Tick == "v "

\* Iteration order of a set of str: by the running process's string hash.
\* The hash is fixed for the life of the process (seed) and differs between
\* processes; here hash(s) = position of s in tech_keywords * seed mod a prime.
HashModulus == Len(tech_keywords) + 3

str_hash(s, seed) == ((index_of(tech_keywords, s) + 1) * seed) % HashModulus

HashSeeds == {1, HashModulus - 1}

RECURSIVE list_of_set(_, _)
\* list(set(...))
list_of_set(S, seed) ==
  IF S = {} THEN <<>>
  ELSE LET first == CHOOSE x \in S : \A y \in S : str_hash(x, seed) <= str_hash(y, seed)
       IN  <<first>> \o list_of_set(S \ {first}, seed)

\* build_requirements without line 228: the title's skills appended, duplicates kept
build_requirements_no_dedup(description, title, seed) ==
  LET requirements == ExtractedRequirements[description]
  IN  IF title = "" THEN requirements
      ELSE [requirements EXCEPT !.skills = @ \o ExtractedRequirements[title].skills]

\* build_requirements with every key of the title's requirements that has a
\* value written over the description's
build_requirements_title_over(description, title, seed) ==
  LET requirements == ExtractedRequirements[description]
      fromTitle    == ExtractedRequirements[title]
  IN  IF title = "" THEN requirements
      ELSE [requirements EXCEPT
              !.skills = list_of_set(Range(@ \o fromTitle.skills), seed),
              !.experience_level = fromTitle.experience_level,
              !.prefers_open_source = @ \/ fromTitle.prefers_open_source,
              !.location = IF fromTitle.location # None THEN fromTitle.location ELSE @]

\* lines 222-228
build_requirements(description, title, seed) ==
  LET requirements == ExtractedRequirements[description]
  IN  IF title = "" THEN requirements
      ELSE [requirements EXCEPT
              !.skills = list_of_set(Range(@ \o ExtractedRequirements[title].skills), seed)]

RECURSIVE join(_, _)
\* sep.join(items)
join(items, sep) ==
  IF items = <<>> THEN ""
  ELSE IF Len(items) = 1 THEN items[1]
  ELSE items[1] \o sep \o join(Tail(items), sep)

\* s[:n] of a list, n of either sign
list_prefix(s, n) ==
  IF n >= 0 THEN SubSeq(s, 1, Min(n, Len(s))) ELSE SubSeq(s, 1, Max(Len(s) + n, 0))

\* lines 258-260: the location bonus applies
location_matches(candidate, requirements) ==
  /\ requirements.location # None
  /\ HasValue(candidate, "location")
  /\ candidate.location # ""
  /\ str_in(requirements.location, str_lower(candidate.location))

\* line 265: the open source bonus applies
open_source_bonus(candidate, requirements) ==
  requirements.prefers_open_source /\ Truthy(candidate, "open_source_contributor")

\* total_score with the weights of skills and experience exchanged
total_score_swapped(skill_score, exp_score, activity_score, locBonus, ossBonus) ==
  LET weighted == RatAdd(RatAdd(RatMul(skill_score, Rat(3, 10)),
                                RatMul(exp_score, Rat(5, 10))),
                         RatMul(activity_score, Rat(2, 10)))
      withLoc  == IF locBonus THEN RatAdd(weighted, Rat(5, 100)) ELSE weighted
  IN  RatMin(IF ossBonus THEN RatAdd(withLoc, Rat(5, 100)) ELSE withLoc, Rat(1, 1))

\* total_score without the cap at 1.0
total_score_uncapped(skill_score, exp_score, activity_score, locBonus, ossBonus) ==
  LET weighted == RatAdd(RatAdd(RatMul(skill_score, Rat(5, 10)),
                                RatMul(exp_score, Rat(3, 10))),
                         RatMul(activity_score, Rat(2, 10)))
      withLoc  == IF locBonus THEN RatAdd(weighted, Rat(5, 100)) ELSE weighted
  IN  IF ossBonus THEN RatAdd(withLoc, Rat(5, 100)) ELSE withLoc

\* total_score with the cap applied before the bonuses
total_score_capped_early(skill_score, exp_score, activity_score, locBonus, ossBonus) ==
  LET weighted == RatMin(RatAdd(RatAdd(RatMul(skill_score, Rat(5, 10)),
                                       RatMul(exp_score, Rat(3, 10))),
                                RatMul(activity_score, Rat(2, 10))), Rat(1, 1))
      withLoc  == IF locBonus THEN RatAdd(weighted, Rat(5, 100)) ELSE weighted
  IN  IF ossBonus THEN RatAdd(withLoc, Rat(5, 100)) ELSE withLoc

\* lines 240-244 and 258-269
total_score(skill_score, exp_score, activity_score, locBonus, ossBonus) ==
  LET weighted == RatAdd(RatAdd(RatMul(skill_score, Rat(5, 10)),
                                RatMul(exp_score, Rat(3, 10))),
                         RatMul(activity_score, Rat(2, 10)))
      withLoc  == IF locBonus THEN RatAdd(weighted, Rat(5, 100)) ELSE weighted
      withOss  == IF ossBonus THEN RatAdd(withLoc, Rat(5, 100)) ELSE withLoc
  IN  RatMin(withOss, Rat(1, 1))

\* build_reasons without the cut to four entries
build_reasons_uncut(candidate, matched_skills, exp_reason, activity_reasons, locBonus) ==
  LET skillsLine == IF matched_skills # <<>>
                      THEN <<Tick \o "Skills: " \o join(list_prefix(matched_skills, 5), ", ")>>
                      ELSE <<>>
      top2 == list_prefix(activity_reasons, 2)
      activityLines == [i \in 1..Len(top2) |-> Tick \o top2[i]]
      locLine == IF locBonus THEN <<Tick \o "Location: " \o candidate.location>> ELSE <<>>
  IN  skillsLine \o <<Tick \o exp_reason>> \o activityLines \o locLine

\* build_reasons with the location line put before the activity lines
build_reasons_location_first(candidate, matched_skills, exp_reason, activity_reasons, locBonus) ==
  LET skillsLine == IF matched_skills # <<>>
                      THEN <<Tick \o "Skills: " \o join(list_prefix(matched_skills, 5), ", ")>>
                      ELSE <<>>
      top2 == list_prefix(activity_reasons, 2)
      activityLines == [i \in 1..Len(top2) |-> Tick \o top2[i]]
      locLine == IF locBonus THEN <<Tick \o "Location: " \o candidate.location>> ELSE <<>>
  IN  list_prefix(skillsLine \o <<Tick \o exp_reason>> \o locLine \o activityLines, 4)

\* lines 247-262 and 274
build_reasons(candidate, matched_skills, exp_reason, activity_reasons, locBonus) ==
  LET skillsLine == IF matched_skills # <<>>
                      THEN <<Tick \o "Skills: " \o join(list_prefix(matched_skills, 5), ", ")>>
                      ELSE <<>>
      top2 == list_prefix(activity_reasons, 2)
      activityLines == [i \in 1..Len(top2) |-> Tick \o top2[i]]
      locLine == IF locBonus THEN <<Tick \o "Location: " \o candidate.location>> ELSE <<>>
  IN  list_prefix(skillsLine \o <<Tick \o exp_reason>> \o activityLines \o locLine, 4)

\* score_candidate with the location key set to "" in a record that lacks it
score_candidate_defaulting(candidate, requirements) ==
  LET sk == calculate_skill_match(candidate, requirements.skills)
      ex == calculate_experience_match(candidate, requirements)
      ac == calculate_github_activity_score(candidate)
  IN  IF sk.raised \/ ex.raised \/ ac.raised THEN [raised |-> TRUE]
      ELSE LET loc == location_matches(candidate, requirements)
               oss == open_source_bonus(candidate, requirements)
           IN  [raised |-> FALSE,
                entry |->
                  [candidate        |-> [k \in DOMAIN candidate \cup {"location"} |->
                                           IF k \in DOMAIN candidate THEN candidate[k] ELSE ""],
                   match_score      |-> round_pct(total_score(sk.score, ex.score, ac.score,
                                                              loc, oss)),
                   match_reasons    |-> build_reasons(candidate, sk.matched_skills, ex.reason,
                                                      ac.reasons, loc),
                   matched_skills   |-> sk.matched_skills,
                   skill_score      |-> round_pct(sk.score),
                   experience_score |-> round_pct(ex.score),
                   activity_score   |-> round_pct(ac.score)]]

\* the body of the loop, lines 233-279, for one candidate: the entry appended
\* to scored_candidates, or raised
score_candidate(candidate, requirements) ==
  LET sk == calculate_skill_match(candidate, requirements.skills)
      ex == calculate_experience_match(candidate, requirements)
      ac == calculate_github_activity_score(candidate)
  IN  IF sk.raised \/ ex.raised \/ ac.raised THEN [raised |-> TRUE]
      ELSE LET loc == location_matches(candidate, requirements)
               oss == open_source_bonus(candidate, requirements)
           IN  [raised |-> FALSE,
                entry |->
                  [candidate        |-> candidate,
                   match_score      |-> round_pct(total_score(sk.score, ex.score, ac.score,
                                                              loc, oss)),
                   match_reasons    |-> build_reasons(candidate, sk.matched_skills, ex.reason,
                                                      ac.reasons, loc),
                   matched_skills   |-> sk.matched_skills,
                   skill_score      |-> round_pct(sk.score),
                   experience_score |-> round_pct(ex.score),
                   activity_score   |-> round_pct(ac.score)]]

\* score_candidate is a pure function of the candidate and the requirements:
\* its value on the candidates and jobs of the requests, computed once
ScoredEntry ==
  [p \in Profiles, job \in Jobs, seed \in HashSeeds |->
     score_candidate(p, build_requirements(job[1], job[2], seed))]

\* list.sort(key=match_score, reverse=True) is stable: equal scores keep their order
RECURSIVE insert_sorted(_, _)
insert_sorted(sorted, e) ==
  IF sorted = <<>> THEN <<e>>
  ELSE IF Head(sorted).match_score >= e.match_score
    THEN <<Head(sorted)>> \o insert_sorted(Tail(sorted), e)
    ELSE <<e>> \o sorted

RECURSIVE sort_by_match_score(_)
sort_by_match_score(s) ==
  IF s = <<>> THEN <<>>
  ELSE insert_sorted(sort_by_match_score(SubSeq(s, 1, Len(s) - 1)), s[Len(s)])

\* line 285
WindowFactor == 5

\* window_size without the window: the whole scored list
window_size_whole(n, lim) == n

\* window_size with the window no wider than the page
window_size_page(n, lim) == Min(n, Max(lim, 0))

window_size(n, lim) == Min(n, Max(lim * WindowFactor, lim))

\* window_fits with < for <=
window_fits_strict(window, lim) == Len(window) < lim

\* window_fits with the comparison turned around
window_fits_reversed(window, lim) == Len(window) >= lim

\* window_fits always: the window is never sampled
window_fits_always(window, lim) == TRUE

\* line 288: the window is returned as it is, without sampling
window_fits(window, lim) == Len(window) <= lim

\* random.sample(population, k): every list of k entries at distinct positions;
\* the empty set where it raises ValueError (k < 0 or k > len(population))
random_sample(population, k) ==
  IF k < 0 \/ k > Len(population) THEN {}
  ELSE {[i \in 1..k |-> population[f[i]]] :
          f \in {g \in [1..k -> 1..Len(population)] :
                   \A i, j \in 1..k : i # j => g[i] # g[j]}}

\* lines 285-293: the lists selected_candidates can be after the final sort
select_candidates(scored, lim) ==
  LET candidate_window == list_prefix(scored, window_size(Len(scored), lim))
  IN  IF window_fits(candidate_window, lim)
        THEN {sort_by_match_score(candidate_window)}
        ELSE {sort_by_match_score(s) : s \in random_sample(candidate_window, lim)}

\* line 299
MatchThreshold == 500

\* count_matches with >= for >
count_matches_inclusive(scored) ==
  Cardinality({i \in 1..Len(scored) : scored[i].match_score >= MatchThreshold})

count_matches(scored) == Cardinality({i \in 1..Len(scored) : scored[i].match_score > MatchThreshold})

\* line 300
QueryLength == 200

RECURSIVE concat(_)
concat(lists) == IF lists = <<>> THEN <<>> ELSE Head(lists) \o concat(Tail(lists))

\* match_candidates with matched_skills one list created before the loop, so
\* that every entry holds the skills matched by the candidates scored so far
match_candidates_shared_list(cands, description, title, lim, seed) ==
  LET requirements == build_requirements(description, title, seed)
      entries == [i \in 1..Len(cands) |-> ScoredEntry[cands[i], <<description, title>>, seed]]
  IN  IF \E i \in 1..Len(cands) : entries[i].raised THEN {[raised |-> TRUE]}
      ELSE LET own      == [i \in 1..Len(cands) |-> entries[i].entry]
               scored   == sort_by_match_score(
                             [i \in 1..Len(cands) |->
                                [own[i] EXCEPT !.matched_skills =
                                   concat([j \in 1..i |-> own[j].matched_skills])]])
               selected == select_candidates(scored, lim)
           IN  IF selected = {} THEN {[raised |-> TRUE]}
               ELSE {[raised         |-> FALSE,
                      total_matches  |-> count_matches(scored),
                      search_query   |-> str_prefix(description, QueryLength),
                      requirements   |-> requirements,
                      top_candidates |-> top,
                      showing        |-> Len(top)] : top \in selected}

\* match_candidates: the set of its outcomes (one per result of the random
\* draw), or {[raised |-> TRUE]} when the call raises
match_candidates(cands, description, title, lim, seed) ==
  LET requirements == build_requirements(description, title, seed)
      entries == [i \in 1..Len(cands) |-> ScoredEntry[cands[i], <<description, title>>, seed]]
  IN  IF \E i \in 1..Len(cands) : entries[i].raised THEN {[raised |-> TRUE]}
      ELSE LET scored   == sort_by_match_score([i \in 1..Len(cands) |-> entries[i].entry])
               selected == select_candidates(scored, lim)
           IN  IF selected = {} THEN {[raised |-> TRUE]}
               ELSE {[raised         |-> FALSE,
                      total_matches  |-> count_matches(scored),
                      search_query   |-> str_prefix(description, QueryLength),
                      requirements   |-> requirements,
                      top_candidates |-> top,
                      showing        |-> Len(top)] : top \in selected}

Init ==
  /\ candidates \in Pools
  /\ \E job \in Jobs : job_description = job[1] /\ job_title = job[2]
  /\ limit \in Limits
  /\ hashseed \in HashSeeds
  /\ op = "none"
  /\ arg = <<>>
  /\ ret = [raised |-> FALSE]
  /\ threads = <<>>
  /\ heap = <<>>

Request == <<candidates, job_description, job_title, limit, hashseed>>

\* the calls running on threads
Calls == <<threads, heap>>

ExtractRequirements ==
  /\ \E text \in {job_description, job_title} \cup LevelTexts :
       /\ arg' = <<text>>
       /\ ret' = [raised |-> FALSE, value |-> ExtractedRequirements[text]]
  /\ op' = "extract_requirements"
  /\ UNCHANGED Request
  /\ UNCHANGED Calls

CalculateSkillMatch ==
  /\ \E i \in 1..Len(candidates) :
       \E required_skills \in {<<>>, build_requirements(job_description, job_title, hashseed).skills} :
         /\ arg' = <<candidates[i], required_skills>>
         /\ ret' = calculate_skill_match(candidates[i], required_skills)
  /\ op' = "calculate_skill_match"
  /\ UNCHANGED Request
  /\ UNCHANGED Calls

\* the requirements dicts a caller hands to calculate_experience_match: the
\* extracted one, the same with the level capitalised, and one without a level
requirement_dicts(requirements) ==
  {requirements,
   [requirements EXCEPT !.experience_level = str_title(@, FALSE)],
   [k \in DOMAIN requirements \ {"experience_level"} |-> requirements[k]]}

CalculateExperienceMatch ==
  /\ \E i \in 1..Len(candidates) :
       \E requirements \in
            requirement_dicts(build_requirements(job_description, job_title, hashseed)) :
         /\ arg' = <<candidates[i], requirements>>
         /\ ret' = calculate_experience_match(candidates[i], requirements)
  /\ op' = "calculate_experience_match"
  /\ UNCHANGED Request
  /\ UNCHANGED Calls

CalculateGithubActivityScore ==
  /\ \E i \in 1..Len(candidates) :
       /\ arg' = <<candidates[i]>>
       /\ ret' = calculate_github_activity_score(candidates[i])
  /\ op' = "calculate_github_activity_score"
  /\ UNCHANGED Request
  /\ UNCHANGED Calls

MatchCandidates ==
  /\ ret' \in match_candidates(candidates, job_description, job_title, limit, hashseed)
  /\ op' = "match_candidates"
  /\ arg' = <<>>
  /\ UNCHANGED Request
  /\ UNCHANGED Calls

\* Requests served by a matcher: match_candidates on pools of every size.
Next ==
  \/ ExtractRequirements
  \/ MatchCandidates

Spec == Init /\ [][Next]_vars

\* The scoring methods called one by one, on one candidate at a time.
CalcInit ==
  /\ candidates \in {<<p>> : p \in Profiles}
  /\ \E job \in Jobs : job_description = job[1] /\ job_title = job[2]
  /\ limit = DefaultLimit
  /\ hashseed \in HashSeeds
  /\ op = "none"
  /\ arg = <<>>
  /\ ret = [raised |-> FALSE]
  /\ threads = <<>>
  /\ heap = <<>>

CalcNext ==
  \/ ExtractRequirements
  \/ CalculateSkillMatch
  \/ CalculateExperienceMatch
  \/ CalculateGithubActivityScore
  \/ MatchCandidates

CalcSpec == CalcInit /\ [][CalcNext]_vars

(***************************************************************************)
(* calculate_skill_match called on the words of the synonym table.         *)
(***************************************************************************)
\* every key and every synonym of the table
SynonymVocabulary ==
  DOMAIN skill_synonyms \cup UNION {Range(skill_synonyms[k]) : k \in DOMAIN skill_synonyms}

\* a candidate whose only skill is s
SoloSkill(s) == [id |-> 200, skills |-> <<s>>, null |-> {}]

VocabInit ==
  /\ candidates \in {<<SoloSkill(s)>> : s \in SynonymVocabulary}
  /\ job_description = "anything"
  /\ job_title = ""
  /\ limit = DefaultLimit
  /\ hashseed \in HashSeeds
  /\ op = "none"
  /\ arg = <<>>
  /\ ret = [raised |-> FALSE]
  /\ threads = <<>>
  /\ heap = <<>>

\* calculate_skill_match is a pure function of its arguments: its value on
\* these candidates and one required skill, computed once
SoloSkillMatch ==
  [s \in SynonymVocabulary, required_skill \in SynonymVocabulary |->
     calculate_skill_match(SoloSkill(s), <<required_skill>>)]

CalculateSkillMatchOne ==
  /\ \E i \in 1..Len(candidates) :
       \E required_skill \in SynonymVocabulary :
         /\ arg' = <<candidates[i], <<required_skill>>>>
         /\ ret' = SoloSkillMatch[candidates[i].skills[1], required_skill]
  /\ op' = "calculate_skill_match"
  /\ UNCHANGED Request
  /\ UNCHANGED Calls

VocabNext == CalculateSkillMatchOne

VocabSpec == VocabInit /\ [][VocabNext]_vars

(***************************************************************************)
(* match_candidates called from several threads on one matcher.  A thread  *)
(* switch can fall between any two statements; the steps below are the     *)
(* statements that read or write a requirements dict, the loop body and    *)
(* the selection.                                                          *)
(***************************************************************************)
Threads == {"t1", "t2"}

ThreadPools == {<<JohnDoe, IdOnly>>, <<JuniorPy, WithNone(JohnDoe, "skills")>>}

ThreadLimits == {1, DefaultLimit}

\* the arguments of one call
ThreadCalls ==
  [candidates : ThreadPools, job : Jobs, limit : ThreadLimits]

\* requirements_cell with the dict kept on the matcher
requirements_cell_shared(t) == "self"

\* line 222: requirements is a local name bound to the dict this call's
\* extract_requirements built
requirements_cell(t) == t

ThreadInit ==
  /\ candidates = <<>>
  /\ job_description = "anything"
  /\ job_title = ""
  /\ limit = DefaultLimit
  /\ hashseed \in HashSeeds
  /\ op = "none"
  /\ arg = <<>>
  /\ ret = [raised |-> FALSE]
  /\ \E calls \in [Threads -> ThreadCalls] :
       threads = [t \in Threads |->
                    [call |-> calls[t], pc |-> "extract", scored_candidates |-> <<>>,
                     result |-> [raised |-> FALSE]]]
  /\ heap = [cell \in Threads \cup {"self"} |-> None]

Single == <<candidates, job_description, job_title, limit, hashseed, op, arg, ret>>

\* line 222
ThreadExtract(t) ==
  /\ threads[t].pc = "extract"
  /\ heap' = [heap EXCEPT ![requirements_cell(t)] =
                 ExtractedRequirements[threads[t].call.job[1]]]
  /\ threads' = [threads EXCEPT ![t].pc = IF threads[t].call.job[2] # "" THEN "extend"
                                          ELSE "score"]
  /\ UNCHANGED Single

\* lines 226-227
ThreadExtend(t) ==
  /\ threads[t].pc = "extend"
  /\ heap' = [heap EXCEPT ![requirements_cell(t)].skills =
                 @ \o ExtractedRequirements[threads[t].call.job[2]].skills]
  /\ threads' = [threads EXCEPT ![t].pc = "dedup"]
  /\ UNCHANGED Single

\* line 228
ThreadDedup(t) ==
  /\ threads[t].pc = "dedup"
  /\ heap' = [heap EXCEPT ![requirements_cell(t)].skills = list_of_set(Range(@), hashseed)]
  /\ threads' = [threads EXCEPT ![t].pc = "score"]
  /\ UNCHANGED Single

\* lines 233-279: one pass of the loop
ThreadScore(t) ==
  /\ threads[t].pc = "score"
  /\ Len(threads[t].scored_candidates) < Len(threads[t].call.candidates)
  /\ LET candidate == threads[t].call.candidates[Len(threads[t].scored_candidates) + 1]
         scored    == score_candidate(candidate, heap[requirements_cell(t)])
     IN  threads' = IF scored.raised
                      THEN [threads EXCEPT ![t].pc = "done", ![t].result = [raised |-> TRUE]]
                      ELSE [threads EXCEPT ![t].scored_candidates = Append(@, scored.entry)]
  /\ UNCHANGED heap
  /\ UNCHANGED Single

\* lines 282-304
ThreadSelect(t) ==
  /\ threads[t].pc = "score"
  /\ Len(threads[t].scored_candidates) = Len(threads[t].call.candidates)
  /\ LET scored == sort_by_match_score(threads[t].scored_candidates)
     IN  \E top \in select_candidates(scored, threads[t].call.limit) :
           threads' = [threads EXCEPT
                         ![t].pc = "done",
                         ![t].scored_candidates = scored,
                         ![t].result =
                           [raised         |-> FALSE,
                            total_matches  |-> count_matches(scored),
                            search_query   |-> str_prefix(threads[t].call.job[1], QueryLength),
                            requirements   |-> heap[requirements_cell(t)],
                            top_candidates |-> top,
                            showing        |-> Len(top)]]
  /\ UNCHANGED heap
  /\ UNCHANGED Single

ThreadNext ==
  \E t \in Threads :
    \/ ThreadExtract(t)
    \/ ThreadExtend(t)
    \/ ThreadDedup(t)
    \/ ThreadScore(t)
    \/ ThreadSelect(t)

ThreadSpec == ThreadInit /\ [][ThreadNext]_vars

(***************************************************************************)
(* Properties.                                                             *)
(***************************************************************************)
Returned == ~ret.raised

\* C1: with any profile field absent or None, calculate_skill_match,
\* calculate_experience_match, calculate_github_activity_score and
\* match_candidates return and never raise.
C1_MissingOrNullNeverRaises ==
  op \in {"calculate_skill_match", "calculate_experience_match",
          "calculate_github_activity_score", "match_candidates"} => Returned

ResponseFields == {"total_matches", "search_query", "requirements", "top_candidates", "showing"}

\* C2: for any candidate list, texts and limit of either sign, match_candidates
\* returns a well-formed MatchResponse and does not raise (stated here for
\* candidates none of whose fields is None).
C2_AlwaysWellFormedResponse ==
  (op = "match_candidates" /\ NoNullFields(candidates)) =>
     /\ Returned
     /\ ResponseFields \subseteq DOMAIN ret
     /\ ret.showing = Len(ret.top_candidates)

IsScenario ==
  /\ candidates = <<ScenarioCandidate>>
  /\ job_description = ScenarioDescription
  /\ job_title = ""
  /\ limit >= 1

ScenarioReasons(reasons) ==
  /\ \E i \in 1..Len(reasons) : str_in("Skills:", reasons[i]) /\ str_in("react", reasons[i])
  /\ \E i \in 1..Len(reasons) : reasons[i] = Tick \o "Perfect match: Senior level"

\* C3 as stated: in the end-to-end scenario the candidate's match_score is
\* above 80, with a skills line mentioning react and the perfect-match line.
C3_ScenarioAbove80 ==
  (IsScenario /\ op = "match_candidates") =>
     /\ Returned
     /\ ret.showing = 1
     /\ ret.top_candidates[1].match_score > 800
     /\ ScenarioReasons(ret.top_candidates[1].match_reasons)

\* C3 as amended: in the end-to-end scenario the candidate's match_score is
\* exactly 76.0 (typescript is not matched: skill score 0.5), with a skills
\* line mentioning react and the perfect-match line.
C3_ScenarioScore76 ==
  (IsScenario /\ op = "match_candidates") =>
     /\ Returned
     /\ ret.showing = 1
     /\ ret.top_candidates[1].match_score = 760
     /\ ret.top_candidates[1].matched_skills = <<"react">>
     /\ ScenarioReasons(ret.top_candidates[1].match_reasons)

C3_Witness ==
  IsScenario /\ op = "match_candidates" /\ Returned /\ ret.showing = 1

ActivityOf(candidate) == op = "calculate_github_activity_score" /\ arg = <<candidate>>

\* C4 as stated: exactly 50 repositories (nothing else) score 0.1, and 51
\* score 0.2.
C4_FiftyReposScoreTenth ==
  /\ ActivityOf(Repos50) => Returned /\ ret.score = Rat(10, 100)
  /\ ActivityOf(Repos51) => Returned /\ ret.score = Rat(20, 100)

\* C4 as amended: exactly 50 repositories (nothing else) score 0.15, the
\* 20-50 band, and 51 score 0.2.
C4_FiftyReposScoreFifteen ==
  /\ ActivityOf(Repos50) => Returned /\ ret.score = Rat(15, 100)
  /\ ActivityOf(Repos51) => Returned /\ ret.score = Rat(20, 100)

C4_Witness == ActivityOf(Repos50) /\ Returned /\ ret.reasons = <<"50 public repositories">>

\* round-half-even of n / d for n >= 0, d > 0
HalfEven(n, d) ==
  IF 2 * (n % d) < d THEN n \div d
  ELSE IF 2 * (n % d) > d THEN (n \div d) + 1
  ELSE (n \div d) + ((n \div d) % 2)

\* the location asked for is a case-insensitive substring of the candidate's
LocationAsked(candidate, requirements) ==
  /\ requirements.location # None
  /\ HasValue(candidate, "location")
  /\ str_in(requirements.location, str_lower(candidate.location))

OpenSourceAsked(candidate, requirements) ==
  requirements.prefers_open_source /\ Truthy(candidate, "open_source_contributor")

\* 1000 * (0.5 skill + 0.3 experience + 0.2 activity + bonuses) as <<n, d>>
WeightedPermille(candidate, requirements) ==
  LET s == calculate_skill_match(candidate, requirements.skills).score
      e == calculate_experience_match(candidate, requirements).score
      a == calculate_github_activity_score(candidate).score
      bonuses == (IF LocationAsked(candidate, requirements) THEN 1 ELSE 0)
                   + (IF OpenSourceAsked(candidate, requirements) THEN 1 ELSE 0)
      d == s.den * e.den * a.den
  IN  <<500 * s.num * e.den * a.den + 300 * e.num * s.den * a.den
          + 200 * a.num * s.den * e.den + 50 * bonuses * d, d>>

ExpectedMatchScore(candidate, requirements) ==
  LET w == WeightedPermille(candidate, requirements)
  IN  HalfEven(Min(w[1], 1000 * w[2]), w[2])

\* C5: every stored match_score is 100 * min(1, 0.5 skill + 0.3 experience
\* + 0.2 activity + 0.05 location bonus + 0.05 open source bonus) rounded to
\* one decimal, and never more than 100.0.
C5_MatchScoreComposition ==
  (op = "match_candidates" /\ Returned) =>
     \A i \in 1..Len(ret.top_candidates) :
       LET e == ret.top_candidates[i]
       IN  /\ e.match_score = ExpectedMatchScore(e.candidate, ret.requirements)
           /\ e.match_score <= 1000

\* a capped score: the weighted sum with its bonus exceeds 1.0
C5_Witness ==
  /\ op = "match_candidates" /\ Returned
  /\ \E i \in 1..Len(ret.top_candidates) :
       LET e == ret.top_candidates[i]
           w == WeightedPermille(e.candidate, ret.requirements)
       IN  w[1] > 1000 * w[2] /\ e.match_score = 1000

Matched == op = "match_candidates" /\ Returned

\* C6: for every pool and limit >= 0, top_candidates has exactly
\* min(len(candidates), limit) entries and showing is its length.
C6_PageSize ==
  (Matched /\ limit >= 0) =>
     /\ Len(ret.top_candidates) = Min(Len(candidates), limit)
     /\ ret.showing = Len(ret.top_candidates)

\* a page cut by the limit
C6_Witness ==
  Matched /\ limit >= 1 /\ Len(candidates) > limit /\ ret.showing = limit

NonIncreasing(entries) ==
  \A i \in 1..(Len(entries) - 1) : entries[i].match_score >= entries[i + 1].match_score

\* every candidate of the pool is the candidate of exactly one entry
EveryCandidateOnce(entries) ==
  /\ Len(entries) = Len(candidates)
  /\ \E f \in [1..Len(entries) -> 1..Len(candidates)] :
       /\ \A i, j \in 1..Len(entries) : i # j => f[i] # f[j]
       /\ \A i \in 1..Len(entries) : entries[i].candidate = candidates[f[i]]

\* C7: when len(candidates) <= limit, match_candidates returns every
\* candidate once, sorted descending by match_score; and a repeated call with
\* the same inputs returns the identical result.
C7_WindowingDeterministic ==
  /\ []((Matched /\ Len(candidates) <= limit) =>
          (NonIncreasing(ret.top_candidates) /\ EveryCandidateOnce(ret.top_candidates)))
  /\ [][(Matched /\ Len(candidates) <= limit /\ op' = "match_candidates" /\ ~ret'.raised)
          => ret' = ret]_vars

\* a pool of as many candidates as the limit, two of them with equal scores
C7_Witness ==
  /\ Matched /\ Len(candidates) = limit /\ limit >= 2
  /\ \E i \in 1..(limit - 1) :
       ret.top_candidates[i].match_score = ret.top_candidates[i + 1].match_score

\* the whole pool scored and sorted, as at line 282
FullRanking ==
  sort_by_match_score(
    [i \in 1..Len(candidates) |->
       ScoredEntry[candidates[i], <<job_description, job_title>>, hashseed].entry])

ClaimedWindowSize == Min(Len(candidates), Max(5 * limit, limit))

\* the entries are entries at distinct positions among the first n of the ranking
DrawnFromTop(entries, n) ==
  \E f \in [1..Len(entries) -> 1..n] :
    /\ \A i, j \in 1..Len(entries) : i # j => f[i] # f[j]
    /\ \A i \in 1..Len(entries) : entries[i] = FullRanking[f[i]]

\* C8: whatever the draw, top_candidates is in non-increasing score order,
\* holds no scored entry twice and only entries of the first window_size
\* entries of the full ranking; so with len(candidates) > 5 * limit no
\* returned candidate scores lower than a candidate outside the window.
C8_SampledFromWindow ==
  Matched =>
     /\ NonIncreasing(ret.top_candidates)
     /\ DrawnFromTop(ret.top_candidates, ClaimedWindowSize)
     /\ Len(candidates) > 5 * limit =>
          \A i \in 1..Len(ret.top_candidates) :
            \A j \in (ClaimedWindowSize + 1)..Len(candidates) :
              ret.top_candidates[i].match_score >= FullRanking[j].match_score

\* a draw from a window smaller than the pool that misses the best candidate
C8_Witness ==
  /\ Matched /\ limit >= 1 /\ Len(candidates) > 5 * limit
  /\ ret.top_candidates[1].match_score < FullRanking[1].match_score

ScoresAbove50 ==
  {i \in 1..Len(candidates) :
     ScoredEntry[candidates[i], <<job_description, job_title>>, hashseed].entry.match_score > 500}

\* C9: total_matches is the number of candidates of the whole pool whose
\* match_score is strictly above 50, whatever the limit and the draw.
C9_TotalMatches ==
  Matched => ret.total_matches = Cardinality(ScoresAbove50)

\* a candidate at exactly 50.0 is left out, and more matches than shown
C9_Witness ==
  /\ Matched
  /\ \E i \in 1..Len(candidates) :
       ScoredEntry[candidates[i], <<job_description, job_title>>, hashseed].entry.match_score = 500
  /\ ret.total_matches > ret.showing
  /\ ret.total_matches < Len(candidates)

\* C10: for an empty pool and the default or any positive limit,
\* match_candidates returns total_matches 0, showing 0 and no candidates.
C10_EmptyPool ==
  (op = "match_candidates" /\ candidates = <<>> /\ limit >= 1) =>
     /\ Returned
     /\ ret.total_matches = 0
     /\ ret.showing = 0
     /\ ret.top_candidates = <<>>

C10_Witness ==
  Matched /\ candidates = <<>> /\ limit = DefaultLimit /\ ret.showing = 0

\* a record that carries nothing but an id
IsIdOnly(candidate) == DOMAIN candidate = {"id", "null"} /\ candidate.null = {}

MidCandidate == [estimated_experience_level |-> "Mid", null |-> {}]

\* C11: a candidate with nothing but an id is scored by match_candidates
\* without raising; its entry has skill_score 0 when a skill is required (50
\* when none is), activity_score 0 and the experience score of a Mid
\* candidate; when the limit does not cut the pool the entry is returned.
C11_IdOnlyScored ==
  (/\ op = "match_candidates" /\ limit >= 0 /\ NoNullFields(candidates)
   /\ \E i \in 1..Len(candidates) : IsIdOnly(candidates[i])) =>
     /\ Returned
     /\ Len(candidates) <= limit =>
          \E k \in 1..Len(ret.top_candidates) : IsIdOnly(ret.top_candidates[k].candidate)
     /\ \A k \in 1..Len(ret.top_candidates) :
          IsIdOnly(ret.top_candidates[k].candidate) =>
            /\ ret.top_candidates[k].skill_score =
                 (IF ret.requirements.skills = <<>> THEN 500 ELSE 0)
            /\ ret.top_candidates[k].activity_score = 0
            /\ ret.top_candidates[k].experience_score =
                 round_pct(calculate_experience_match(MidCandidate, ret.requirements).score)

\* the id-only candidate returned for a job that requires skills
C11_Witness ==
  /\ Matched /\ ret.requirements.skills # <<>>
  /\ \E k \in 1..Len(ret.top_candidates) :
       /\ IsIdOnly(ret.top_candidates[k].candidate)
       /\ ret.top_candidates[k].skill_score = 0
       /\ ret.top_candidates[k].experience_score = 700

\* C12: for any candidate record, calculate_skill_match(candidate, [])
\* returns exactly (0.5, []).
C12_NeutralSkillScore ==
  (op = "calculate_skill_match" /\ arg[2] = <<>>) =>
     ret = [raised |-> FALSE, score |-> Rat(1, 2), matched_skills |-> <<>>]

\* the neutral score for a candidate whose skills field is None
C12_Witness ==
  /\ op = "calculate_skill_match" /\ arg[2] = <<>>
  /\ IsNone(arg[1], "skills")
  /\ Returned /\ ret.score = Rat(1, 2)

\* s is t with some entries left out, the others in t's order
IsSubsequence(s, t) ==
  \E f \in [1..Len(s) -> 1..Len(t)] :
    /\ \A i, j \in 1..Len(s) : i < j => f[i] < f[j]
    /\ \A i \in 1..Len(s) : s[i] = t[f[i]]

\* C13: for a non-empty required-skill list, a call of calculate_skill_match
\* that returns gives score = |matched_skills| / |required_skills|, between 0
\* and 1, every matched skill is a required skill, and each entry of the
\* required list is appended at most once.
C13_SkillScoreBounds ==
  (op = "calculate_skill_match" /\ arg[2] # <<>> /\ Returned) =>
     /\ ret.score = Rat(Len(ret.matched_skills), Len(arg[2]))
     /\ ~RatLess(ret.score, Rat(0, 1)) /\ ~RatLess(Rat(1, 1), ret.score)
     /\ Range(ret.matched_skills) \subseteq Range(arg[2])
     /\ IsSubsequence(ret.matched_skills, arg[2])

\* a required skill that the candidate lists and also has a synonym of is
\* matched once, and another required skill is not matched
C13_Witness ==
  /\ op = "calculate_skill_match" /\ Returned /\ Len(arg[2]) >= 2
  /\ Len(ret.matched_skills) = 1
  /\ ret.matched_skills[1] \in DOMAIN skill_synonyms
  /\ ret.matched_skills[1] \in candidate_skill_set(arg[1], arg[2])

Tiers == {"junior", "mid", "senior"}

\* junior 0, mid 1, senior 2
TierRank(level) == IF level = "junior" THEN 0 ELSE IF level = "mid" THEN 1 ELSE 2

\* the level the requirements dict asks for, lower-cased; mid when it has none
RequiredLevel(requirements) ==
  IF "experience_level" \in DOMAIN requirements
    THEN str_lower(requirements.experience_level) ELSE "mid"

\* the candidate states a level that is one of the three tiers in some case
StatesTier(candidate) ==
  /\ HasValue(candidate, "estimated_experience_level")
  /\ str_lower(candidate.estimated_experience_level) \in Tiers

\* the candidate states a level that is a string but none of the three tiers
StatesUnknownLevel(candidate) ==
  /\ HasValue(candidate, "estimated_experience_level")
  /\ str_lower(candidate.estimated_experience_level) \notin Tiers

LevelAbsent(candidate) ==
  ~HasValue(candidate, "estimated_experience_level")
    /\ ~IsNone(candidate, "estimated_experience_level")

ExperienceCall == op = "calculate_experience_match"

\* C14: over the 9 pairs of candidate level and required level in junior,
\* mid, senior, compared case-insensitively, calculate_experience_match returns
\* 1.0 for equal levels, 0.9 for a candidate one tier above, 0.7 for one tier
\* below and 0.4 for two tiers apart.
C14_ExperienceTable ==
  (ExperienceCall /\ StatesTier(arg[1]) /\ RequiredLevel(arg[2]) \in Tiers) =>
     LET cand == TierRank(str_lower(arg[1].estimated_experience_level))
         req  == TierRank(RequiredLevel(arg[2]))
     IN  /\ Returned
         /\ ret.score = (IF cand = req THEN Rat(10, 10)
                         ELSE IF cand = req + 1 THEN Rat(9, 10)
                         ELSE IF cand = req - 1 THEN Rat(7, 10)
                         ELSE Rat(4, 10))

\* a candidate one tier above the requirement, both written in another case
\* than the tiers of the code
C14_Witness ==
  /\ ExperienceCall /\ Returned /\ StatesTier(arg[1])
  /\ arg[1].estimated_experience_level = "SENIOR"
  /\ "experience_level" \in DOMAIN arg[2] /\ arg[2].experience_level = "Mid"
  /\ ret.score = Rat(9, 10)

\* C15 as claimed: a candidate whose level is absent, or is a string other
\* than junior, mid, senior, gets the score and the reason of a candidate
\* whose level is Mid.
C15_AbsentOrUnknownAsMid ==
  (ExperienceCall /\ (LevelAbsent(arg[1]) \/ StatesUnknownLevel(arg[1]))) =>
     ret = calculate_experience_match(MidCandidate, arg[2])

FallbackResult ==
  [raised |-> FALSE, score |-> Rat(5, 10), reason |-> "Unable to determine experience match"]

\* C15 as amended: a candidate whose level is absent gets the score and the
\* reason of a candidate whose level is Mid; a candidate whose level is a
\* string other than junior, mid, senior gets (0.5, "Unable to determine
\* experience match").
C15_AbsentAsMidUnknownFallback ==
  /\ (ExperienceCall /\ LevelAbsent(arg[1])) =>
        ret = calculate_experience_match(MidCandidate, arg[2])
  /\ (ExperienceCall /\ StatesUnknownLevel(arg[1])) => ret = FallbackResult

\* an unknown level gets the fallback where a Mid candidate gets another score
C15_Witness ==
  /\ ExperienceCall /\ StatesUnknownLevel(arg[1]) /\ ret = FallbackResult
  /\ calculate_experience_match(MidCandidate, arg[2]).score = Rat(7, 10)

\* C16: a candidate whose level cannot be parsed into junior, mid, senior (an
\* unknown string, or a value that is no string, as None) gets exactly
\* (0.5, "Unable to determine experience match") and no error propagates.
C16_UnparseableFallback ==
  (/\ ExperienceCall
   /\ StatesUnknownLevel(arg[1]) \/ IsNone(arg[1], "estimated_experience_level")) =>
     ret = FallbackResult

\* the points of a count: highPts above high, midPts above mid, lowPts above low
ClaimedBand(n, high, highPts, mid, midPts, low, lowPts) ==
  IF n > high THEN highPts ELSE IF n > mid THEN midPts ELSE IF n > low THEN lowPts ELSE 0

\* the sum the claim gives, in hundredths
ClaimedActivity(candidate) ==
  ClaimedBand(Get(candidate, "public_repos", 0), 50, 20, 20, 15, 10, 10)
    + ClaimedBand(Get(candidate, "total_stars", 0), 500, 30, 100, 20, 50, 10)
    + ClaimedBand(Get(candidate, "followers", 0), 200, 20, 100, 15, 50, 10)
    + (IF Truthy(candidate, "has_popular_repos") THEN 15 ELSE 0)
    + (IF Truthy(candidate, "open_source_contributor") THEN 15 ELSE 0)

ActivityCall == op = "calculate_github_activity_score" /\ Returned

\* C17: calculate_github_activity_score is the sum of the band values with
\* strict cutoffs (repos >50 0.2, >20 0.15, >10 0.1; stars >500 0.3, >100 0.2,
\* >50 0.1; followers >200 0.2, >100 0.15, >50 0.1) plus 0.15 for popular
\* repos and 0.15 for an open source contributor; it lies in [0, 1]; a count
\* on a cutoff falls into the lower band.
C17_ActivityBands ==
  ActivityCall =>
     /\ ret.score = Rat(ClaimedActivity(arg[1]), 100)
     /\ ~RatLess(ret.score, Rat(0, 1)) /\ ~RatLess(Rat(1, 1), ret.score)

\* 500 stars earn the 0.2 of the band below the cutoff
C17_Witness ==
  /\ ActivityCall
  /\ Get(arg[1], "total_stars", 0) = 500
  /\ Get(arg[1], "public_repos", 0) = 0 /\ Get(arg[1], "followers", 0) = 0
  /\ ret.score = Rat(20, 100)

\* a score of the response, kept in tenths, within 0.0 .. 100.0
InPercentRange(score) == 0 <= score /\ score <= 1000

\* C18: in every scored entry, match_score, skill_score, experience_score and
\* activity_score each lie in [0, 100].
C18_ScoresInRange ==
  Matched =>
     \A k \in 1..Len(ret.top_candidates) :
       /\ InPercentRange(ret.top_candidates[k].match_score)
       /\ InPercentRange(ret.top_candidates[k].skill_score)
       /\ InPercentRange(ret.top_candidates[k].experience_score)
       /\ InPercentRange(ret.top_candidates[k].activity_score)

\* the weighted sum and a bonus pass 1.0 and the entry is capped at 100.0
C18_Witness ==
  /\ Matched /\ Len(ret.top_candidates) = 1
  /\ ret.top_candidates[1].match_score = 1000
  /\ 5 * ret.top_candidates[1].skill_score + 3 * ret.top_candidates[1].experience_score
       + 2 * ret.top_candidates[1].activity_score + 500 > 10000

\* how many entries of the sequence equal x
Occurrences(s, x) == Cardinality({i \in 1..Len(s) : s[i] = x})

\* C20: a call of match_candidates leaves the candidates list as it was, the
\* same records in the same order, and the candidate field of every entry
\* returned is a record of that list, no record used more often than the list
\* holds it.
C20_InputsUntouched ==
  /\ [][op' = "match_candidates" => candidates' = candidates]_vars
  /\ [](Matched =>
          LET returned == [k \in 1..Len(ret.top_candidates) |-> ret.top_candidates[k].candidate]
          IN  \A k \in 1..Len(returned) :
                /\ returned[k] \in Range(candidates)
                /\ Occurrences(returned, returned[k]) <= Occurrences(candidates, returned[k]))

\* entries returned in another order than the candidates were given in
C20_Witness ==
  /\ Matched /\ Len(candidates) >= 2 /\ Len(ret.top_candidates) = Len(candidates)
  /\ ret.top_candidates[1].candidate = candidates[Len(candidates)]
  /\ candidates[1] # candidates[Len(candidates)]

\* what the call of thread t returns when it runs alone
AloneOutcomes(t) ==
  match_candidates(threads[t].call.candidates, threads[t].call.job[1],
                   threads[t].call.job[2], threads[t].call.limit, hashseed)

\* C21: whatever the interleaving of the match_candidates calls of several
\* threads on one matcher, the result of each call (scores, reasons,
\* requirements) is a result of the same call run alone.
C21_ThreadsDoNotInterfere ==
  \A t \in DOMAIN threads :
    threads[t].pc = "done" => threads[t].result \in AloneOutcomes(t)

\* a call has returned while another call, for another job, is in its loop
C21_Witness ==
  \E t, u \in DOMAIN threads :
    /\ threads[t].pc = "done" /\ ~threads[t].result.raised
    /\ threads[u].pc = "score" /\ threads[u].scored_candidates # <<>>
    /\ threads[t].call.job # threads[u].call.job
    /\ threads[t].result.requirements # heap[requirements_cell(u)]

\* the candidate skills after synonym expansion, as the call computes them
ExpandedSkills == expand_synonyms(candidate_skill_set(arg[1], arg[2]))

\* (a) direct membership in the expanded candidate set
DirectTest(skill) == skill \in ExpandedSkills

\* (b) the skill has synonym entries and one of them is in the candidate set
SynonymTest(skill) ==
  /\ skill \in DOMAIN skill_synonyms
  /\ Range(skill_synonyms[skill]) \cap ExpandedSkills # {}

\* (c) the similarity ratio to some candidate skill exceeds 0.8
FuzzyTest(skill) ==
  \E cand_skill \in ExpandedSkills : RatLess(Rat(8, 10), ratio(skill, cand_skill))

\* C22: a required skill is in matched_skills if and only if the direct test,
\* the synonym test or the fuzzy test succeeds; a skill with synonym entries
\* that fails the first two is still matched when the fuzzy test succeeds.
C22_ThreeTestsInOrder ==
  (op = "calculate_skill_match" /\ Returned /\ arg[2] # <<>>) =>
     \A i \in 1..Len(arg[2]) :
       arg[2][i] \in Range(ret.matched_skills)
         <=> (DirectTest(arg[2][i]) \/ SynonymTest(arg[2][i]) \/ FuzzyTest(arg[2][i]))

\* s is listed as a synonym of the key k
SynonymOf(s, k) == k \in DOMAIN skill_synonyms /\ s \in Range(skill_synonyms[k])

\* C23: for every entry k -> S of the synonym table and every s in S, a
\* candidate whose only skill is s matches the required skill k, and a
\* candidate whose only skill is k matches the required skill s.
C23_SynonymsBothWays ==
  (op = "calculate_skill_match" /\ Len(arg[2]) = 1 /\ arg[1] = SoloSkill(arg[1].skills[1])) =>
     ((SynonymOf(arg[1].skills[1], arg[2][1]) \/ SynonymOf(arg[2][1], arg[1].skills[1]))
        => (Returned /\ ret.matched_skills = arg[2]))

\* the candidate knows only the key and the synonym is required, the two too
\* far apart for the similarity test
C23_Witness ==
  /\ op = "calculate_skill_match" /\ Returned
  /\ arg[1] = SoloSkill("kubernetes") /\ arg[2] = <<"k8s">>
  /\ ret.matched_skills = <<"k8s">>

\* the first n entries of a sequence, all of it when it is shorter
FirstEntries(s, n) == [i \in 1..(IF Len(s) < n THEN Len(s) ELSE n) |-> s[i]]

RECURSIVE CommaJoined(_)
CommaJoined(s) ==
  IF Len(s) = 0 THEN "" ELSE IF Len(s) = 1 THEN s[1] ELSE s[1] \o ", " \o CommaJoined(Tail(s))

\* the reason of the experience match of an entry's candidate
ExperienceReason(entry) == calculate_experience_match(entry.candidate, ret.requirements).reason

\* the reasons of the activity score of an entry's candidate
ActivityReasons(entry) == calculate_github_activity_score(entry.candidate).reasons

\* the location bonus applies to the entry: the job names a place and the
\* candidate's location holds it
LocationBonusApplies(entry) ==
  /\ ret.requirements.location # None
  /\ HasValue(entry.candidate, "location")
  /\ str_in(ret.requirements.location, str_lower(entry.candidate.location))

\* the reason lines in the order the claim gives, before the cut
AssembledReasons(entry) ==
  (IF entry.matched_skills # <<>>
     THEN <<Tick \o "Skills: " \o CommaJoined(FirstEntries(entry.matched_skills, 5))>>
     ELSE <<>>)
  \o <<Tick \o ExperienceReason(entry)>>
  \o [i \in 1..Len(FirstEntries(ActivityReasons(entry), 2)) |-> Tick \o ActivityReasons(entry)[i]]
  \o (IF LocationBonusApplies(entry)
        THEN <<Tick \o "Location: " \o entry.candidate.location>> ELSE <<>>)

\* C24: match_reasons is the first 4 entries of: the skills line with up to 5
\* matched skills (only if any matched), the experience reason, the first 2
\* activity reasons, the location line (only if the bonus applied); it has at
\* most 4 entries and holds the experience reason.
C24_MatchReasons ==
  Matched =>
     \A k \in 1..Len(ret.top_candidates) :
       LET entry == ret.top_candidates[k]
       IN  /\ entry.match_reasons = FirstEntries(AssembledReasons(entry), 4)
           /\ Len(entry.match_reasons) <= 4
           /\ Tick \o ExperienceReason(entry) \in Range(entry.match_reasons)

\* five lines assembled, more than five skills matched
C24_Witness ==
  /\ Matched /\ Len(ret.top_candidates) = 1
  /\ Len(ret.top_candidates[1].matched_skills) > 5
  /\ Len(AssembledReasons(ret.top_candidates[1])) = 5
  /\ Len(ret.top_candidates[1].match_reasons) = 4

\* a keyword of the tier occurs in the lower-cased text
HasTierKeyword(text, tier) ==
  \E i \in 1..Len(experience_keywords[tier]) :
    str_in(experience_keywords[tier][i], str_lower(text))

\* C25: extract_requirements checks the tiers in the order junior, mid, senior
\* and the first tier with a keyword in the lower-cased text wins; a text with
\* no keyword of any tier yields mid.
C25_LevelDetectionOrder ==
  op = "extract_requirements" =>
     ret.value.experience_level =
       (IF HasTierKeyword(arg[1], "junior") THEN "junior"
        ELSE IF HasTierKeyword(arg[1], "mid") THEN "mid"
        ELSE IF HasTierKeyword(arg[1], "senior") THEN "senior"
        ELSE "mid")

\* a text with a junior and a senior keyword yields junior
C25_Witness ==
  /\ op = "extract_requirements"
  /\ HasTierKeyword(arg[1], "junior") /\ HasTierKeyword(arg[1], "senior")
  /\ ret.value.experience_level = "junior"

\* the sequence s read from position r on, around the end
Rotation(s, r) == [i \in 1..Len(s) |-> s[((i + r - 1) % Len(s)) + 1]]

Reversed(s) == [i \in 1..Len(s) |-> s[Len(s) + 1 - i]]

\* orderings of a list: all of them for up to 4 entries; for a longer list
\* its rotations and their reversals
Orderings(s) ==
  IF Len(s) <= 4
    THEN {[i \in 1..Len(s) |-> s[f[i]]] :
            f \in {g \in [1..Len(s) -> 1..Len(s)] :
                     \A i, j \in 1..Len(s) : i # j => g[i] # g[j]}}
    ELSE {Rotation(s, r) : r \in 0..(Len(s) - 1)}
           \cup {Reversed(Rotation(s, r)) : r \in 0..(Len(s) - 1)}

\* C26: with a job title, requirements.skills is as a set the union of the
\* skills found in the description and in the title, without a duplicate, and
\* the skill_score and match_score of every candidate are the same for every
\* ordering of that list.
C26_TitleSkillsUnion ==
  (Matched /\ job_title # "") =>
     /\ Range(ret.requirements.skills) =
          Range(ExtractedRequirements[job_description].skills)
            \cup Range(ExtractedRequirements[job_title].skills)
     /\ Cardinality(Range(ret.requirements.skills)) = Len(ret.requirements.skills)
     /\ \A k \in 1..Len(ret.top_candidates) :
          \A order \in Orderings(ret.requirements.skills) :
            LET reordered == score_candidate(ret.top_candidates[k].candidate,
                                             [ret.requirements EXCEPT !.skills = order]).entry
            IN  /\ reordered.skill_score = ret.top_candidates[k].skill_score
                /\ reordered.match_score = ret.top_candidates[k].match_score

\* the title repeats a skill of the description and adds none: the list is
\* the description's skills, once each
C26_Witness ==
  /\ Matched /\ job_title # "" /\ Len(ret.top_candidates) = 1
  /\ ExtractedRequirements[job_title].skills # <<>>
  /\ Range(ExtractedRequirements[job_title].skills)
       \subseteq Range(ExtractedRequirements[job_description].skills)
  /\ Len(ret.requirements.skills) = Len(ExtractedRequirements[job_description].skills)
  /\ ret.top_candidates[1].skill_score = 500

\* the pool is larger than the page and no larger than five pages
WindowIsPool == limit < Len(candidates) /\ Len(candidates) <= 5 * limit

\* the candidates of the entries returned
ReturnedCandidates(response) ==
  {response.top_candidates[k].candidate : k \in 1..Len(response.top_candidates)}

\* what the request can return: one outcome for each result of the draw
Outcomes == match_candidates(candidates, job_description, job_title, limit, hashseed)

\* C27: when limit < len(candidates) <= 5 * limit the window is the whole
\* pool: for every candidate, the lowest-scoring one included, some outcome of
\* the draw returns it, and some outcome does not return the highest-scoring
\* candidate.
C27_WholePoolSampled ==
  (Matched /\ WindowIsPool) =>
     /\ ret \in Outcomes
     /\ \A i \in 1..Len(candidates) :
          \E outcome \in Outcomes :
            ~outcome.raised /\ candidates[i] \in ReturnedCandidates(outcome)
     /\ \E outcome \in Outcomes :
          ~outcome.raised /\ FullRanking[1].candidate \notin ReturnedCandidates(outcome)

\* a draw that returns the lowest-scoring candidate and not the highest-scoring
C27_Witness ==
  /\ Matched /\ WindowIsPool
  /\ FullRanking[Len(candidates)].match_score < FullRanking[1].match_score
  /\ FullRanking[Len(candidates)].candidate \in ReturnedCandidates(ret)
  /\ FullRanking[1].candidate \notin ReturnedCandidates(ret)

\* the entry of the candidate when the pool holds nobody else
AloneEntry(candidate) ==
  (CHOOSE outcome \in match_candidates(<<candidate>>, job_description, job_title,
                                       DefaultLimit, hashseed) : TRUE).top_candidates[1]

\* C28: the entry of a candidate (match_score, component scores,
\* matched_skills, match_reasons) is the entry the candidate gets in a pool of
\* its own: who else is in the pool, and in which order, does not change it.
C28_ScoredIndependently ==
  Matched =>
     \A k \in 1..Len(ret.top_candidates) :
       ret.top_candidates[k] = AloneEntry(ret.top_candidates[k].candidate)

\* a candidate returned behind another one who matched other skills
C28_Witness ==
  /\ Matched /\ Len(ret.top_candidates) >= 2
  /\ ret.top_candidates[1].matched_skills # <<>>
  /\ ret.top_candidates[2].matched_skills # ret.top_candidates[1].matched_skills
  /\ ret.top_candidates[2] = AloneEntry(ret.top_candidates[2].candidate)

LocationPrefix == Tick \o "Location: "

IsLocationLine(line) ==
  Len(line) >= Len(LocationPrefix) /\ SubSeq(line, 1, Len(LocationPrefix)) = LocationPrefix

\* C29: for a candidate with a matched skill and two or more activity
\* reasons, match_reasons holds no location line even when the location
\* matched, while match_score includes the 0.05 of the location bonus; and the
\* open source bonus adds no reason line: every line is the skills line, the
\* experience reason, an activity reason or the location line.
C29_LocationLineCut ==
  Matched =>
     \A k \in 1..Len(ret.top_candidates) :
       LET entry == ret.top_candidates[k]
       IN  /\ (entry.matched_skills # <<>> /\ Len(ActivityReasons(entry)) >= 2) =>
                 /\ \A i \in 1..Len(entry.match_reasons) : ~IsLocationLine(entry.match_reasons[i])
                 /\ entry.match_score = ExpectedMatchScore(entry.candidate, ret.requirements)
           /\ Range(entry.match_reasons) \subseteq Range(AssembledReasons(entry))

\* the location matched and its bonus is in the score, its line not in the reasons
C29_Witness ==
  /\ Matched /\ Len(ret.top_candidates) = 1
  /\ LocationBonusApplies(ret.top_candidates[1])
  /\ ret.top_candidates[1].matched_skills # <<>>
  /\ Len(ActivityReasons(ret.top_candidates[1])) >= 2
  /\ \A i \in 1..Len(ret.top_candidates[1].match_reasons) :
       ~IsLocationLine(ret.top_candidates[1].match_reasons[i])
  /\ ret.top_candidates[1].match_score < 1000
  /\ 10 * ret.top_candidates[1].match_score
       = 5 * ret.top_candidates[1].skill_score + 3 * ret.top_candidates[1].experience_score
           + 2 * ret.top_candidates[1].activity_score + 500

\* the requirements extracted from the description alone
FromDescription == ExtractedRequirements[job_description]

\* C30: with a job title, experience_level, min_years, prefers_open_source,
\* location and raw_text of the requirements are those extracted from the
\* description alone, and so are every candidate's experience score and
\* bonuses: keywords that occur only in the title change none of them.
C30_TitleOnlySkills ==
  (Matched /\ job_title # "") =>
     /\ \A key \in {"experience_level", "min_years", "prefers_open_source", "location",
                     "raw_text"} :
          ret.requirements[key] = FromDescription[key]
     /\ \A k \in 1..Len(ret.top_candidates) :
          LET entry == ret.top_candidates[k]
          IN  /\ entry.experience_score =
                   round_pct(calculate_experience_match(entry.candidate, FromDescription).score)
              /\ entry.match_score =
                   ExpectedMatchScore(entry.candidate,
                                      [FromDescription EXCEPT !.skills = ret.requirements.skills])

\* the title names a level, a city and open source, the description none of
\* them, and a senior open source contributor of that city is scored against
\* mid with no bonus for the city or for open source
C30_Witness ==
  /\ Matched /\ job_title # "" /\ Len(ret.top_candidates) = 1
  /\ ExtractedRequirements[job_title].experience_level = "senior"
  /\ ret.requirements.experience_level = "mid"
  /\ ExtractedRequirements[job_title].prefers_open_source
  /\ ~ret.requirements.prefers_open_source
  /\ ExtractedRequirements[job_title].location = "berlin"
  /\ ret.requirements.location = "remote"
  /\ Truthy(ret.top_candidates[1].candidate, "open_source_contributor")
  /\ ret.top_candidates[1].experience_score = 900
====
